---- MODULE Spec2Model ----
(***************************************************************************)
(* Seq2SeqGoalOrientedBotWithNerNetwork                                    *)
(* (deeppavlov/models/seq2seq_go_bot/network_with_ner.py).                 *)
(*                                                                         *)
(* The model follows the Python control flow of the class (construction,   *)
(* parameter validation, save/load with the JSON sidecar, train_on_batch,  *)
(* __call__) and the arithmetic that the graph-building code describes     *)
(* (masked losses, normalisation, the bounded decode loop).  TensorFlow    *)
(* itself is an external collaborator: a graph operation is modelled by    *)
(* the computation it is documented to perform, and the checks TensorFlow  *)
(* makes on dtypes, ranks and keyword names while _build_graph runs are    *)
(* not part of the model: _build_graph is taken to build the graph that    *)
(* its code describes.                                                     *)
(***************************************************************************)
EXTENDS Integers, Sequences, FiniteSets, TLC

VARIABLES
    alive,      \* an instance exists (its __init__ returned normally)
    opt,        \* self.opt as the latest __init__ call left it
    stages,     \* the steps the latest __init__ call executed
    weights,    \* the learned weights held by self.sess
    disk,       \* the checkpoint: weight file and JSON sidecar
    lastOp,     \* the latest call made on the class
    lastErr,    \* the exception it raised ("none" when it returned)
    pc,         \* "idle", or "decoding" while __call__ runs the decode loop
    call,       \* the __call__ in flight: its arguments and decode-loop state
    lastBatch,  \* the batch of the latest train_on_batch call
    ret,        \* the value the latest call returned
    pending,    \* the batch and the inference input the caller holds ready
    ctorArgs    \* the arguments of the latest __init__ call

vars == <<alive, opt, stages, weights, disk, lastOp, lastErr, pc, call,
          lastBatch, ret, pending, ctorArgs>>

----------------------------------------------------------------------------
(* Python values                                                           *)

PyList(s) == [kind |-> "list", items |-> s]
PyTuple(s) == [kind |-> "tuple", items |-> s]

\* json.dump of a sequence value: lists and tuples are both written as a
\* JSON array.
JsonDumpSeq(v) == [kind |-> "array", items |-> v.items]

\* A variant that reads a JSON array back as a tuple.
JsonLoadSeqAsTuple(j) == [kind |-> "tuple", items |-> j.items]

\* json.load of a JSON array: it is read back as a list.
JsonLoadSeq(j) == [kind |-> "list", items |-> j.items]

\* Line 534: json.dump(self.opt, fp); numbers and strings are written as they
\* are.
JsonDump(o) ==
    [o EXCEPT !.ner_hidden_size = JsonDumpSeq(@),
              !.kb_attention_hidden_sizes = JsonDumpSeq(@),
              !.l2_regs = JsonDumpSeq(@)]

\* Line 516: params = json.load(fp).
JsonLoad(j) ==
    [j EXCEPT !.ner_hidden_size = JsonLoadSeq(@),
              !.kb_attention_hidden_sizes = JsonLoadSeq(@),
              !.l2_regs = JsonLoadSeq(@)]

\* A rational number n/d (d > 0), in lowest terms.
RECURSIVE Gcd(_, _)
Gcd(a, b) == IF b = 0 THEN a ELSE Gcd(b, a % b)

AbsInt(x) == IF x < 0 THEN -x ELSE x

Rat(n, d) ==
    LET g == Gcd(AbsInt(n), d)
    IN  [n |-> n \div g, d |-> d \div g]

----------------------------------------------------------------------------
(* Constructor arguments                                                   *)

\* KB-embedding sums are counted in units of 1e-4.
ControlSumTolerance == 10

\* The names tf.train is asked for, with what each one is there.
TfTrainAttr ==
    [AdamOptimizer |-> "optimizer_class",
     GradientDescentOptimizer |-> "optimizer_class",
     Saver |-> "other_class",
     exponential_decay |-> "function"]

OptimizerNames ==
    {"AdamOptimizer", "GradientDescentOptimizer", "Saver", "exponential_decay",
     "NoSuchOptimizer"}

BaseArgs ==
    [ner_n_tags |-> 2,
     ner_beta |-> Rat(1, 2),
     hidden_size |-> 4,
     source_vocab_size |-> 5,
     target_vocab_size |-> 3,
     target_start_of_sequence_index |-> 0,
     target_end_of_sequence_index |-> 1,
     decoder_embeddings |-> [width |-> 2],
     ner_hidden_size |-> PyList(<<>>),
     knowledge_base_entry_embeddings |-> [rows |-> 2, width |-> 2, sum |-> 100],
     kb_attention_hidden_sizes |-> PyList(<<>>),
     beam_width |-> 1,
     l2_regs |-> PyList(<<0, 0>>),
     dropout_rate |-> 0,
     state_dropout_rate |-> 0,
     optimizer |-> "AdamOptimizer"]

\* The default knowledge_base_entry_embeddings, [[]]: one row of width 0.
EmptyKb == [rows |-> 1, width |-> 0, sum |-> 0]

\* The other values each constructor argument takes in the model.
OtherValues ==
    [ner_n_tags |-> {3},
     ner_beta |-> {Rat(1, 4)},
     hidden_size |-> {8},
     source_vocab_size |-> {6},
     target_vocab_size |-> {4},
     target_start_of_sequence_index |-> {2},
     target_end_of_sequence_index |-> {2},
     decoder_embeddings |-> {[width |-> 3]},
     ner_hidden_size |-> {PyList(<<3>>)},
     knowledge_base_entry_embeddings |->
        {[rows |-> 2, width |-> 2, sum |-> 105],
         [rows |-> 2, width |-> 2, sum |-> 120],
         [rows |-> 3, width |-> 2, sum |-> 100],
         [rows |-> 2, width |-> 3, sum |-> 100],
         EmptyKb},
     kb_attention_hidden_sizes |-> {PyList(<<2>>)},
     beam_width |-> {2},
     l2_regs |-> {PyTuple(<<0, 0>>), PyList(<<1, 1>>), PyList(<<1>>),
                  PyList(<<0, 0, 0>>)},
     dropout_rate |-> {1},
     state_dropout_rate |-> {1},
     optimizer |-> OptimizerNames \ {"AdamOptimizer"}]

\* BaseArgs with one argument among F changed.
OneChanged(a, F) ==
    UNION {{[a EXCEPT ![f] = v] : v \in OtherValues[f]} : f \in F}

\* BaseArgs with at most two arguments among F changed.
UpToTwoChanged(F) ==
    LET one == OneChanged(BaseArgs, F)
    IN  {BaseArgs} \cup one \cup UNION {OneChanged(a, F) : a \in one}

GraphArgNames ==
    {"ner_n_tags", "ner_hidden_size", "hidden_size", "source_vocab_size",
     "target_vocab_size", "decoder_embeddings",
     "knowledge_base_entry_embeddings", "kb_attention_hidden_sizes"}

ValidationArgNames ==
    {"decoder_embeddings", "knowledge_base_entry_embeddings", "l2_regs",
     "optimizer", "ner_hidden_size"}

\* The arguments that set no graph parameter.
NonGraphArgNames ==
    {"ner_beta", "target_start_of_sequence_index", "target_end_of_sequence_index",
     "beam_width", "l2_regs", "dropout_rate", "state_dropout_rate", "optimizer"}

\* One argument changed; the decoder embeddings and the KB-attention
\* sizes (the parameter checked after the KB checksum) also together with the
\* KB embeddings.
PersistArgs ==
    LET one == OneChanged(BaseArgs, GraphArgNames \cup NonGraphArgNames)
        two == OneChanged(BaseArgs, {"decoder_embeddings", "kb_attention_hidden_sizes"})
    IN  {BaseArgs} \cup one
          \cup UNION {OneChanged(a, {"knowledge_base_entry_embeddings"}) : a \in two}
CtorArgs == UpToTwoChanged(ValidationArgNames)

----------------------------------------------------------------------------
(* __init__ and _init_params                                               *)

\* Lines 89-95: kb_size is the row count when the rows have a width.
KbSize(args) ==
    IF args.knowledge_base_entry_embeddings.width > 0
    THEN args.knowledge_base_entry_embeddings.rows
    ELSE 0

\* A variant that objects only to KB entries wider than the decoder's.
EmbeddingDimErrorIfWider(args) ==
    /\ KbSize(args) > 0
    /\ args.knowledge_base_entry_embeddings.width > args.decoder_embeddings.width

\* Lines 98-101: the embedding-width check, which raises ValueError.
EmbeddingDimError(args) ==
    /\ KbSize(args) > 0
    /\ args.knowledge_base_entry_embeddings.width # args.decoder_embeddings.width

\* Lines 105-123: self.opt.
MakeOpt(args) ==
    [ner_n_tags |-> args.ner_n_tags,
     ner_hidden_size |-> args.ner_hidden_size,
     ner_beta |-> args.ner_beta,
     hidden_size |-> args.hidden_size,
     source_vocab_size |-> args.source_vocab_size,
     target_vocab_size |-> args.target_vocab_size,
     target_start_of_sequence_index |-> args.target_start_of_sequence_index,
     target_end_of_sequence_index |-> args.target_end_of_sequence_index,
     kb_attention_hidden_sizes |-> args.kb_attention_hidden_sizes,
     kb_embedding_control_sum |-> args.knowledge_base_entry_embeddings.sum,
     knowledge_base_size |-> KbSize(args),
     embedding_size |-> args.decoder_embeddings.width,
     beam_width |-> args.beam_width,
     l2_regs |-> args.l2_regs,
     dropout_rate |-> args.dropout_rate,
     state_dropout_rate |-> args.state_dropout_rate,
     optimizer |-> args.optimizer]

\* Lines 161-166: hasattr/getattr on tf.train, then issubclass.  A name that
\* tf.train lacks leaves self._optimizer None, and issubclass(None, ...) as
\* well as issubclass(<function>, ...) raises TypeError.
OptimizerError(name) ==
    LET _optimizer == IF name \in DOMAIN TfTrainAttr
                      THEN TfTrainAttr[name] ELSE "None"
    IN  IF _optimizer \notin {"optimizer_class", "other_class"}
        THEN "TypeError"
        ELSE IF _optimizer # "optimizer_class" THEN "ConfigError" ELSE "none"

\* A variant that objects only to fewer than two regularization weights.
InitParamsErrorIfShorter(o) ==
    IF Len(o.l2_regs.items) < 2 THEN "ConfigError"
    ELSE OptimizerError(o.optimizer)

\* Lines 142-166: _init_params.
InitParamsError(o) ==
    IF Len(o.l2_regs.items) # 2 THEN "ConfigError"
    ELSE OptimizerError(o.optimizer)

\* A whole number as the units argument of a layer.
PyInt(n) == [kind |-> "int", items |-> <<n>>]

\* Line 144: the assignment ends with a comma, so self.ner_hidden_size is a
\* tuple of one element, the configured list.
NerHiddenSizeAttr(o) == <<o.ner_hidden_size>>

\* Lines 457-469: _build_ner_head makes one dense layer with ReLU for each
\* element of self.ner_hidden_size, with the element as its units, and then
\* a dense layer of ner_n_tags units without activation.
NerHeadLayers(o) ==
    [i \in 1..Len(NerHiddenSizeAttr(o)) |->
        [units |-> NerHiddenSizeAttr(o)[i], activation |-> "relu"]]
      \o <<[units |-> PyInt(o.ner_n_tags), activation |-> "none"]>>

----------------------------------------------------------------------------
(* load_params                                                             *)

\* A variant that also lists beam_width among the graph parameters.
GRAPH_PARAMS_WithBeamWidth ==
    <<"ner_n_tags", "ner_hidden_size", "hidden_size", "knowledge_base_size",
      "source_vocab_size", "target_vocab_size", "embedding_size",
      "kb_embedding_control_sum", "kb_attention_hidden_sizes", "beam_width">>

\* Line 64-67.
GRAPH_PARAMS ==
    <<"ner_n_tags", "ner_hidden_size", "hidden_size", "knowledge_base_size",
      "source_vocab_size", "target_vocab_size", "embedding_size",
      "kb_embedding_control_sum", "kb_attention_hidden_sizes">>

\* Line 519: `p in ('kb_embedding_control_sum')` is a substring test against
\* a string; no other name of GRAPH_PARAMS is a substring of it.
InControlSumName(p) == p = "kb_embedding_control_sum"

\* Line 520: the module math has no attribute abs.
MathHasAbs == FALSE

\* Lines 518-524: one iteration of the loop over GRAPH_PARAMS.
CheckParam(p, cur, saved) ==
    IF cur[p] = saved[p] THEN "continue"
    ELSE IF InControlSumName(p)
         THEN IF ~MathHasAbs THEN "AttributeError"
              ELSE IF AbsInt(cur[p] - saved[p]) < ControlSumTolerance
                   THEN "continue" ELSE "ConfigError"
         ELSE "ConfigError"

\* Lines 517-524: the loop, from the i-th name on; the first error ends it.
RECURSIVE LoadParamsFrom(_, _, _)
LoadParamsFrom(i, cur, saved) ==
    IF i > Len(GRAPH_PARAMS) THEN "none"
    ELSE LET r == CheckParam(GRAPH_PARAMS[i], cur, saved)
         IN  IF r = "continue" THEN LoadParamsFrom(i + 1, cur, saved) ELSE r

\* Lines 512-524: load_params; the sidecar is missing when nothing was saved.
LoadParamsError(cur, d) ==
    IF ~d.exists THEN "FileNotFoundError"
    ELSE LoadParamsFrom(1, cur, JsonLoad(d.params))

----------------------------------------------------------------------------
(* float32 values: a finite rational, a NaN, or an infinity (losses are    *)
(* never negative, so one infinity is enough)                              *)

Fin(n, d) == [kind |-> "fin", n |-> Rat(n, d).n, d |-> Rat(n, d).d]
NaN == [kind |-> "nan", n |-> 0, d |-> 1]
Inf == [kind |-> "inf", n |-> 0, d |-> 1]
Zero == Fin(0, 1)

IsFinite(x) == x.kind = "fin"

Mul(x, y) ==
    IF x.kind = "nan" \/ y.kind = "nan" THEN NaN
    ELSE IF x.kind = "inf" \/ y.kind = "inf"
         THEN IF x = Zero \/ y = Zero THEN NaN ELSE Inf
         ELSE Fin(x.n * y.n, x.d * y.d)

Add(x, y) ==
    IF x.kind = "nan" \/ y.kind = "nan" THEN NaN
    ELSE IF x.kind = "inf" \/ y.kind = "inf" THEN Inf
         ELSE Fin(x.n * y.d + y.n * x.d, x.d * y.d)

Div(x, y) ==
    IF x.kind = "nan" \/ y.kind = "nan" THEN NaN
    ELSE IF y.kind = "inf" THEN (IF x.kind = "inf" THEN NaN ELSE Zero)
    ELSE IF y = Zero THEN (IF x = Zero THEN NaN ELSE Inf)
    ELSE IF x.kind = "inf" THEN Inf
    ELSE Fin(x.n * y.d, x.d * y.n)

\* tf.reduce_sum over a sequence of values.
RECURSIVE ReduceSum(_)
ReduceSum(s) == IF s = <<>> THEN Zero ELSE Add(Head(s), ReduceSum(Tail(s)))

\* tf.verify_tensor_all_finite: TRUE when the check passes.
AllFinite(s) == \A i \in 1..Len(s) : IsFinite(s[i])

----------------------------------------------------------------------------
(* The losses                                                              *)
(*                                                                         *)
(* An example of a batch carries, next to the fed arrays, the cross        *)
(* entropies that the current weights give at each position: dec_xent[t]   *)
(* for the fed decoder output at step t, and ner_xent[t][k + 1] for every  *)
(* tag k at input position t (the one-hot label picks one of them).        *)

\* Lines 198-207: the decoder loss of one example, before and after the
\* normalisation by the mask sum.
DecLossTensor(ex) ==
    [t \in 1..Len(ex.tgt_mask) |-> Mul(ex.dec_xent[t], Fin(ex.tgt_mask[t], 1))]

DecLossOfExample(ex) ==
    Div(ReduceSum(DecLossTensor(ex)),
        ReduceSum([t \in 1..Len(ex.tgt_mask) |-> Fin(ex.tgt_mask[t], 1)]))

\* A variant that leaves the mask out of the token losses.
NerLossTensorUnmasked(ex) ==
    [t \in 1..Len(ex.src_tags) |-> ex.ner_xent[t][ex.src_tags[t] + 1]]

\* Lines 220-230: the NER loss of one example.
NerLossTensor(ex) ==
    [t \in 1..Len(ex.src_tags) |->
        Mul(ex.ner_xent[t][ex.src_tags[t] + 1], Fin(ex.src_tag_mask[t], 1))]

NerLossOfExample(ex) ==
    Div(ReduceSum(NerLossTensor(ex)),
        ReduceSum([t \in 1..Len(ex.src_tag_mask) |-> Fin(ex.src_tag_mask[t], 1)]))

\* tf.losses.get_regularization_loss of a scope: the Encoder and Decoder
\* layers register no regularizer, the NerHead kernels register tf.nn.l2_loss,
\* a finite value that the weights determine.
RegLoss(scope, w) == IF scope = "NerHead" THEN Fin(w + 1, 1) ELSE Zero

\* Lines 212-215 and 235-238.
AddL2(loss, l2_reg, reg) ==
    IF l2_reg > 0 THEN Add(loss, Mul(Fin(l2_reg, 1), reg)) ELSE loss

\* Lines 196-216: _build_dec_loss; err is the failed finiteness check.
DecLoss(o, w, b) ==
    LET n == Len(b.examples)
        ok == \A i \in 1..n : AllFinite(DecLossTensor(b.examples[i]))
        perEx == [i \in 1..n |-> DecLossOfExample(b.examples[i])]
        loss == Div(ReduceSum(perEx), Fin(n, 1))
        reg == Add(RegLoss("Encoder", w), RegLoss("Decoder", w))
    IN  [err |-> IF ok THEN "none" ELSE "InvalidArgumentError",
         loss |-> AddL2(loss, o.l2_regs.items[1], reg)]

\* Lines 218-242: _build_ner_loss_predict.
NerLoss(o, w, b) ==
    LET n == Len(b.examples)
        ok == \A i \in 1..n : AllFinite(NerLossTensor(b.examples[i]))
        perEx == [i \in 1..n |-> NerLossOfExample(b.examples[i])]
        loss == Div(ReduceSum(perEx), Fin(n, 1))
    IN  [err |-> IF ok THEN "none" ELSE "InvalidArgumentError",
         loss |-> AddL2(loss, o.l2_regs.items[2], RegLoss("NerHead", w))]

\* Line 187: self._loss.
CombinedLoss(o, dec, ner) ==
    Add(Mul(Fin(o.ner_beta.d - o.ner_beta.n, o.ner_beta.d), dec),
        Mul(Fin(o.ner_beta.n, o.ner_beta.d), ner))

\* Lines 250-252: the encoder-input placeholder has a fixed last dimension;
\* the session refuses a fed array of another width with ValueError.
FeedError(o, encWidth) ==
    IF encWidth # o.embedding_size THEN "ValueError" ELSE "none"

\* Lines 489-506: sess.run([self._train_op, self._loss]) of train_on_batch.
TrainRun(o, w, b) ==
    LET dec == DecLoss(o, w, b)
        ner == NerLoss(o, w, b)
    IN  IF FeedError(o, b.enc_width) # "none"
        THEN [err |-> FeedError(o, b.enc_width), loss |-> Zero]
        ELSE IF dec.err # "none" THEN [err |-> dec.err, loss |-> Zero]
        ELSE IF ner.err # "none" THEN [err |-> ner.err, loss |-> Zero]
        ELSE [err |-> "none", loss |-> CombinedLoss(o, dec.loss, ner.loss)]

----------------------------------------------------------------------------
(* Bounds and inputs                                                       *)

MaxUpdates == 2     \* training steps applied to one set of weights
MaxSrcLen == 2      \* input positions of an example
MaxBatch == 2       \* examples of a batch

TagIds == {0, 1}
MaskValues == {0, 1}
NerXentRows == {<<Fin(1, 1), Fin(2, 1)>>, <<Inf, NaN>>}
DecXentValues == {Fin(1, 1), NaN}

NerPositions == [tag : TagIds, mask : MaskValues, xent : NerXentRows]
DecPositions == [mask : MaskValues, xent : DecXentValues]

MakeExample(np, dp) ==
    [src_tags |-> [t \in 1..Len(np) |-> np[t].tag],
     src_tag_mask |-> [t \in 1..Len(np) |-> np[t].mask],
     ner_xent |-> [t \in 1..Len(np) |-> np[t].xent],
     tgt_mask |-> [t \in 1..Len(dp) |-> dp[t].mask],
     dec_xent |-> [t \in 1..Len(dp) |-> dp[t].xent]]

Examples ==
    {MakeExample(np, dp) :
        np \in UNION {[1..n -> NerPositions] : n \in 1..MaxSrcLen},
        dp \in [1..1 -> DecPositions]}

PlainExample ==
    MakeExample(<<[tag |-> 0, mask |-> 1, xent |-> <<Fin(1, 1), Fin(2, 1)>>]>>,
                <<[mask |-> 1, xent |-> Fin(1, 1)]>>)

\* An example whose tag mask sums to zero.
UntaggedExample ==
    MakeExample(<<[tag |-> 0, mask |-> 0, xent |-> <<Fin(1, 1), Fin(2, 1)>>]>>,
                <<[mask |-> 1, xent |-> Fin(1, 1)]>>)

MakeBatch(w, exs) == [enc_width |-> w, examples |-> exs]

\* Batches of one example, and larger ones filled up with plain examples;
\* all with encoder inputs of the width of BaseArgs.
RECURSIVE Filled(_, _)
Filled(ex, n) == IF n = 0 THEN <<>> ELSE <<ex>> \o Filled(ex, n - 1)

TrainBatches ==
    {MakeBatch(BaseArgs.decoder_embeddings.width, <<e>> \o Filled(PlainExample, n)) :
        e \in Examples, n \in 0..(MaxBatch - 1)}

\* A batch whose encoder inputs have another width than the placeholder.
MisshapenBatch == MakeBatch(BaseArgs.decoder_embeddings.width + 1, <<PlainExample>>)

SmallBatches ==
    {MakeBatch(BaseArgs.decoder_embeddings.width, <<PlainExample>>),
     MakeBatch(BaseArgs.decoder_embeddings.width, <<PlainExample, UntaggedExample>>),
     MisshapenBatch}

\* The arguments of an inference call.
CallInputs ==
    [enc_width : {BaseArgs.decoder_embeddings.width},
     src_seq_lens : UNION {[1..n -> 0..MaxSrcLen] : n \in 1..MaxBatch},
     prob : BOOLEAN]
      \cup [enc_width : {BaseArgs.decoder_embeddings.width + 1},
            src_seq_lens : {<<1>>},
            prob : BOOLEAN]

\* A few inference calls: well-formed and not, with and without prob.
SmallCallInputs ==
    [enc_width : {BaseArgs.decoder_embeddings.width,
                  BaseArgs.decoder_embeddings.width + 1},
     src_seq_lens : {<<1>>},
     prob : BOOLEAN]

NoBatch == MakeBatch(0, <<>>)
NoInput == [enc_width |-> 0, src_seq_lens |-> <<>>, prob |-> FALSE]
NoPending == [batch |-> NoBatch, input |-> NoInput]
\* max_id is the largest token id among the predictions so far, -1 for none.
NoCall ==
    [prob |-> FALSE, src_seq_lens |-> <<>>, max_iters |-> 0, step |-> 0,
     finished |-> FALSE, max_id |-> -1]
\* A returned value: a loss or predictions, with the weights the run read.
NoRet == [kind |-> "none", loss |-> Zero, steps |-> 0, w |-> 0, max_id |-> -1]

----------------------------------------------------------------------------
(* State                                                                   *)

\* The value of opt while no self.opt exists.
NoOpt == MakeOpt(BaseArgs)

InitModel ==
    /\ alive = FALSE
    /\ opt = NoOpt
    /\ stages = <<>>
    /\ weights = 0
    /\ disk = [exists |-> FALSE, params |-> JsonDump(MakeOpt(BaseArgs)), weights |-> 0]
    /\ lastOp = "none"
    /\ lastErr = "none"
    /\ pc = "idle"
    /\ call = NoCall
    /\ lastBatch = NoBatch
    /\ ret = NoRet
    /\ ctorArgs = BaseArgs

Init == InitModel /\ pending = NoPending

\* Line 134: tf.global_variables_initializer gives the weights their initial
\* value.
InitialWeights == 0

\* super().load: the weights of the checkpoint replace the session's.
RestoredWeights(d, w) == d.weights

\* A variant that restores the weights before it compares the parameters.
LoadResultRestoresFirst(o, w, d) ==
    [err |-> LoadParamsError(o, d),
     weights |-> IF d.exists THEN RestoredWeights(d, w) ELSE w]

\* Lines 508-510: load.
LoadResult(o, w, d) ==
    LET e == LoadParamsError(o, d)
    IN  [err |-> e, weights |-> IF e = "none" THEN RestoredWeights(d, w) ELSE w]

\* Lines 69-140: __init__, with the steps it executed before it returned or
\* raised.  When load raises, weights is what the session held at the raise.
InitResult(args, d) ==
    LET o == MakeOpt(args)
        ld == LoadResult(o, InitialWeights, d)
    IN  IF EmbeddingDimError(args)
        THEN [err |-> "ValueError", stages |-> <<"embeddings">>,
              hasOpt |-> FALSE, weights |-> 0]
        ELSE IF InitParamsError(o) # "none"
        THEN [err |-> InitParamsError(o),
              stages |-> <<"embeddings", "super", "opt", "_init_params">>,
              hasOpt |-> TRUE, weights |-> 0]
        ELSE IF ~d.exists
        THEN [err |-> "none",
              stages |-> <<"embeddings", "super", "opt", "_init_params",
                           "_build_graph", "session">>,
              hasOpt |-> TRUE, weights |-> InitialWeights]
        ELSE [err |-> ld.err,
              stages |-> <<"embeddings", "super", "opt", "_init_params",
                           "_build_graph", "session", "load">>,
              hasOpt |-> TRUE,
              weights |-> ld.weights]

Construct(args) ==
    /\ ~alive
    /\ LET r == InitResult(args, disk)
       IN  /\ alive' = (r.err = "none")
           /\ opt' = IF r.hasOpt THEN MakeOpt(args) ELSE NoOpt
           /\ stages' = r.stages
           /\ weights' = r.weights
           /\ lastErr' = r.err
    /\ lastOp' = "__init__"
    /\ lastBatch' = NoBatch
    /\ ret' = NoRet
    /\ ctorArgs' = args
    /\ UNCHANGED <<disk, pc, call, pending>>

\* The process ends and the instance with it.
Destroy ==
    /\ alive
    /\ pc = "idle"
    /\ alive' = FALSE
    /\ weights' = 0
    /\ lastOp' = "exit"
    /\ lastErr' = "none"
    /\ lastBatch' = NoBatch
    /\ ret' = NoRet
    /\ UNCHANGED <<opt, stages, disk, pc, call, pending, ctorArgs>>

\* Lines 526-528: saving reads the variables.
WeightsAfterSave(w) == w

\* Lines 526-534: save and save_params.
SavedCheckpoint(o, w) == [exists |-> TRUE, params |-> JsonDump(o), weights |-> w]

Save ==
    /\ alive
    /\ pc = "idle"
    /\ disk' = SavedCheckpoint(opt, weights)
    /\ weights' = WeightsAfterSave(weights)
    /\ lastOp' = "save"
    /\ lastErr' = "none"
    /\ lastBatch' = NoBatch
    /\ ret' = NoRet
    /\ UNCHANGED <<alive, opt, stages, pc, call, pending, ctorArgs>>

\* Lines 508-510: load called on a live instance.
Load ==
    /\ alive
    /\ pc = "idle"
    /\ LET r == LoadResult(opt, weights, disk)
       IN  /\ weights' = r.weights
           /\ lastErr' = r.err
    /\ lastOp' = "load"
    /\ lastBatch' = NoBatch
    /\ ret' = NoRet
    /\ UNCHANGED <<alive, opt, stages, disk, pc, call, pending, ctorArgs>>

\* The optimizer step of self._train_op.
UpdatedWeights(w) == w + 1

\* Lines 489-506: train_on_batch.
TrainOnBatch(b) ==
    /\ alive
    /\ pc = "idle"
    /\ weights < MaxUpdates
    /\ LET r == TrainRun(opt, weights, b)
       IN  /\ lastErr' = r.err
           /\ weights' = IF r.err = "none" THEN UpdatedWeights(weights) ELSE weights
           /\ ret' = IF r.err = "none"
                     THEN [NoRet EXCEPT !.kind = "loss", !.loss = r.loss,
                                        !.w = weights]
                     ELSE [NoRet EXCEPT !.w = weights]
    /\ lastOp' = "train_on_batch"
    /\ lastBatch' = b
    /\ UNCHANGED <<alive, opt, stages, disk, pc, call, pending, ctorArgs>>

----------------------------------------------------------------------------
(* __call__ and the decode loop                                            *)

\* tf.reduce_max over the fed lengths.
RECURSIVE ReduceMax(_)
ReduceMax(s) ==
    IF Len(s) = 1 THEN s[1]
    ELSE LET m == ReduceMax(Tail(s)) IN IF s[1] > m THEN s[1] ELSE m

\* A variant that takes the sum of the lengths for their maximum.
MaxItersOfSum(lens) == 2 * ReduceSum([i \in 1..Len(lens) |-> Fin(lens[i], 1)]).n

\* Line 417: tf.round(tf.reduce_max(self._src_sequence_lengths) * 2); the
\* lengths are whole numbers, which tf.round leaves as they are.
MaxIters(lens) == 2 * ReduceMax(lens)

\* A variant whose fetches include the train op.
WeightsAfterInferenceWithTrainOp(w) == w + 1

\* Lines 473-483: the fetches of __call__ are the predictions alone, so the
\* run assigns no variable.
WeightsAfterInference(w) == w

\* Lines 472-483: __call__ up to the start of the decode loop.
CallBegin(in) ==
    /\ alive
    /\ pc = "idle"
    /\ IF FeedError(opt, in.enc_width) # "none"
       THEN /\ lastErr' = FeedError(opt, in.enc_width)
            /\ call' = [NoCall EXCEPT !.prob = in.prob,
                                      !.src_seq_lens = in.src_seq_lens]
            /\ UNCHANGED pc
       ELSE /\ lastErr' = "none"
            /\ pc' = "decoding"
            /\ call' = [prob |-> in.prob,
                        src_seq_lens |-> in.src_seq_lens,
                        max_iters |-> MaxIters(in.src_seq_lens),
                        step |-> 0,
                        finished |-> FALSE,
                        max_id |-> -1]
    /\ lastOp' = "__call__"
    /\ lastBatch' = NoBatch
    /\ ret' = NoRet
    /\ UNCHANGED <<alive, opt, stages, weights, disk, pending, ctorArgs>>

\* Lines 432-450: one iteration of dynamic_decode over the beam-search
\* decoder; the loop goes on while some beam is unfinished and fewer than
\* maximum_iterations steps were made.  Whether every beam has emitted the
\* end token after the step depends on the weights and is left open.
DecodeContinues(c) == ~c.finished /\ c.step < c.max_iters

\* The knowledge-base-attention projection scores the target vocabulary
\* plus the KB entries.
KBAttentionUnits(o) == o.target_vocab_size + o.knowledge_base_size

\* A variant whose dense layer has as many units as the source vocabulary.
ProjectionWidthOfSourceVocab(o) ==
    IF o.knowledge_base_size > 0 THEN KBAttentionUnits(o) ELSE o.source_vocab_size

\* Lines 346-357: the output layer of the decoder is the KB attention when
\* there is a knowledge base and a dense layer of tgt_vocab_size units
\* otherwise.
ProjectionWidth(o) ==
    IF o.knowledge_base_size > 0 THEN KBAttentionUnits(o) ELSE o.target_vocab_size

\* Lines 429-451: the beam search picks each predicted id among the units of
\* the output layer (positions after the end token repeat the end token).
PredictedIds(o) == 0..(ProjectionWidth(o) - 1)

DecodeStep ==
    /\ pc = "decoding"
    /\ DecodeContinues(call)
    /\ \E done \in BOOLEAN, id \in PredictedIds(opt) :
          call' = [call EXCEPT !.step = @ + 1, !.finished = done,
                               !.max_id = IF id > @ THEN id ELSE @]
    /\ UNCHANGED <<alive, opt, stages, weights, disk, lastOp, lastErr, pc,
                   lastBatch, ret, pending, ctorArgs>>

\* Lines 484-487: after the run, prob decides between raising and returning.
CallReturn ==
    /\ pc = "decoding"
    /\ ~DecodeContinues(call)
    /\ pc' = "idle"
    /\ weights' = WeightsAfterInference(weights)
    /\ IF call.prob
       THEN /\ lastErr' = "NotImplementedError"
            /\ ret' = NoRet
       ELSE /\ lastErr' = "none"
            /\ ret' = [NoRet EXCEPT !.kind = "preds", !.steps = call.step,
                                    !.w = weights, !.max_id = call.max_id]
    /\ call' = [call EXCEPT !.finished = TRUE]
    /\ UNCHANGED <<alive, opt, stages, disk, lastOp, lastBatch, pending, ctorArgs>>

----------------------------------------------------------------------------
(* Specifications                                                          *)

LifecycleArgs ==
    {BaseArgs,
     [BaseArgs EXCEPT !.beam_width = 2],
     [BaseArgs EXCEPT !.hidden_size = 8]}

\* Configurations for inference: with a knowledge base, and with the default
\* table over target vocabularies of two sizes.
InferArgs ==
    LifecycleArgs
      \cup {[BaseArgs EXCEPT !.knowledge_base_entry_embeddings = EmptyKb],
            [BaseArgs EXCEPT !.knowledge_base_entry_embeddings = EmptyKb,
                             !.target_vocab_size = 4]}

TrainArgs ==
    {BaseArgs,
     [BaseArgs EXCEPT !.l2_regs = PyList(<<1, 1>>), !.ner_beta = Rat(1, 4)]}

\* The whole life of the class in one process after another.
Next ==
    \/ \E a \in LifecycleArgs : Construct(a)
    \/ Destroy
    \/ Save
    \/ Load
    \/ \E b \in SmallBatches : TrainOnBatch(b)
    \/ \E in \in SmallCallInputs : CallBegin(in)
    \/ DecodeStep
    \/ CallReturn

Spec == Init /\ [][Next]_vars

\* Inference calls on one input, over inputs of every shape.
InitInfer ==
    InitModel /\ pending \in [batch : {NoBatch}, input : CallInputs]

NextInfer ==
    \/ \E a \in InferArgs : Construct(a)
    \/ CallBegin(pending.input)
    \/ DecodeStep
    \/ CallReturn

InferSpec == InitInfer /\ [][NextInfer]_vars

\* A call runs to its end: the session is synchronous.
InferFairSpec == InferSpec /\ WF_vars(DecodeStep) /\ WF_vars(CallReturn)

\* Construction alone, over the arguments that the validation reads.
NextCtor ==
    \/ \E a \in CtorArgs : Construct(a)
    \/ Destroy

CtorSpec == Init /\ [][NextCtor]_vars

\* Saving and loading across instances whose graph parameters differ.
NextPersist ==
    \/ \E a \in PersistArgs : Construct(a)
    \/ Destroy
    \/ Save
    \/ Load
    \/ \E b \in SmallBatches : TrainOnBatch(b)

PersistSpec == Init /\ [][NextPersist]_vars

\* Training steps on one batch, over batches of every shape.
InitTrain ==
    InitModel
      /\ pending \in [batch : TrainBatches \cup {MisshapenBatch}, input : {NoInput}]

NextTrain ==
    \/ \E a \in TrainArgs : Construct(a)
    \/ TrainOnBatch(pending.batch)

TrainSpec == InitTrain /\ [][NextTrain]_vars

----------------------------------------------------------------------------
(* Properties                                                              *)

\* The latest call ran load_params against an existing sidecar.
LoadRan ==
    /\ disk.exists
    /\ \/ lastOp = "load"
       \/ lastOp = "__init__" /\ \E i \in 1..Len(stages) : stages[i] = "load"

Persisted == JsonLoad(disk.params)

NonKbGraphParams ==
    {"ner_n_tags", "ner_hidden_size", "hidden_size", "knowledge_base_size",
     "source_vocab_size", "target_vocab_size", "embedding_size",
     "kb_attention_hidden_sizes"}

StagesRun == {stages[i] : i \in 1..Len(stages)}

\* C1: a load against a persisted configuration in which some graph
\* parameter other than the KB-embedding checksum differs from the current
\* configuration fails with ConfigError.
C1_MismatchIsConfigError ==
    (LoadRan /\ \E p \in NonKbGraphParams : opt[p] # Persisted[p])
        => lastErr = "ConfigError"

\* C2: a load against a persisted configuration whose KB-embedding checksum
\* differs from the current one by less than the tolerance, every other graph
\* parameter being equal, returns normally with the weights restored.
C2_SmallDriftLoads ==
    (/\ LoadRan
     /\ \A p \in NonKbGraphParams : opt[p] = Persisted[p]
     /\ opt.kb_embedding_control_sum # Persisted.kb_embedding_control_sum
     /\ AbsInt(opt.kb_embedding_control_sum - Persisted.kb_embedding_control_sum)
            < ControlSumTolerance)
        => (lastErr = "none" /\ weights = disk.weights)

\* The KB of the latest __init__ call has entries and their width is not the
\* decoder embedding width.
KbWidthMismatch ==
    /\ lastOp = "__init__"
    /\ ctorArgs.knowledge_base_entry_embeddings.rows > 0
    /\ ctorArgs.knowledge_base_entry_embeddings.width > 0
    /\ ctorArgs.knowledge_base_entry_embeddings.width
          # ctorArgs.decoder_embeddings.width

\* C3: construction with a non-empty KB whose embedding width is not the
\* decoder embedding width fails with the dimension error, and it fails
\* before _init_params, _build_graph and the session creation.
C3_WidthMismatchFailsEarly ==
    KbWidthMismatch
        => /\ lastErr = "ValueError"
           /\ ~alive
           /\ StagesRun \cap {"_init_params", "_build_graph", "session"} = {}

C3_Witness == KbWidthMismatch /\ lastErr = "ValueError"

\* C4: construction with an optimizer name that is no tf.train.Optimizer
\* subclass of tf.train fails, once the earlier validations passed, with
\* ConfigError.
C4_BadOptimizerIsConfigError ==
    (/\ lastOp = "__init__"
     /\ "_init_params" \in StagesRun
     /\ Len(ctorArgs.l2_regs.items) = 2
     /\ ctorArgs.optimizer \notin {"AdamOptimizer", "GradientDescentOptimizer"})
        => lastErr = "ConfigError"

\* C5: train_on_batch never returns a non-finite loss: a non-finite decoder
\* or NER loss makes the call raise.
C5_ReturnedLossIsFinite ==
    (lastOp = "train_on_batch" /\ lastErr = "none") => IsFinite(ret.loss)

\* C6: a __call__ with prob=True ends with NotImplementedError and returns
\* nothing, whatever the input.
C6_ProbIsNotImplemented ==
    (lastOp = "__call__" /\ pc = "idle" /\ call.prob)
        => (lastErr = "NotImplementedError" /\ ret.kind = "none")

\* The persisted configuration holds the settings of the current one.
SameSettings(o, j) ==
    /\ \A p \in DOMAIN o \ {"ner_hidden_size", "kb_attention_hidden_sizes", "l2_regs"} :
          o[p] = j[p]
    /\ \A p \in {"ner_hidden_size", "kb_attention_hidden_sizes", "l2_regs"} :
          o[p].items = j[p].items

\* C7: a load into an instance configured as the instance that saved passes
\* the compatibility check and leaves the instance with the saved weights.
C7_RoundTrip ==
    (LoadRan /\ SameSettings(opt, disk.params))
        => (lastErr = "none" /\ alive /\ weights = disk.weights)

C7_Witness ==
    /\ LoadRan
    /\ lastOp = "__init__"
    /\ SameSettings(opt, disk.params)
    /\ opt.ner_hidden_size.items # <<>>
    /\ alive
    /\ weights = disk.weights
    /\ weights # InitialWeights

\* C8: the decode loop makes at most 2 * max(source length) steps, and a
\* call that entered the loop leaves it.
C8_DecodeBoundedAndEnds ==
    /\ [](pc = "decoding" => call.step <= 2 * ReduceMax(call.src_seq_lens))
    /\ [](lastOp = "__call__" /\ ret.kind = "preds"
            => ret.steps <= 2 * ReduceMax(call.src_seq_lens))
    /\ (pc = "decoding") ~> (pc = "idle")

\* A call returned predictions after as many steps as the bound allows.
C8_Witness ==
    /\ lastOp = "__call__"
    /\ pc = "idle"
    /\ ret.kind = "preds"
    /\ ReduceMax(call.src_seq_lens) > 0
    /\ ret.steps = 2 * ReduceMax(call.src_seq_lens)

\* C9: an inference call and a save leave the weights as they are.
C9_OnlyTrainingUpdates ==
    [][lastOp' \in {"__call__", "save"} => weights' = weights]_vars

C9_Witness ==
    /\ lastOp = "__call__"
    /\ ret.kind = "preds"
    /\ disk.exists
    /\ disk.weights # InitialWeights
    /\ weights = disk.weights

\* The positions of a batch whose tag mask is 0, and the batch with the tag
\* of one position changed.
MaskedPositions(b) ==
    {<<i, t>> \in (1..Len(b.examples)) \X (1..MaxSrcLen) :
        /\ t <= Len(b.examples[i].src_tags)
        /\ b.examples[i].src_tag_mask[t] = 0}

TagChangedAt(b, i, t, k) == [b EXCEPT !.examples[i].src_tags[t] = k]

\* C10: changing the tag of a position whose tag mask is 0 changes neither
\* the NER loss nor the outcome of train_on_batch.
C10_MaskedTagsDoNotCount ==
    lastOp = "train_on_batch" =>
        \A p \in MaskedPositions(lastBatch) : \A k \in TagIds :
            LET v == TagChangedAt(lastBatch, p[1], p[2], k)
                r == TrainRun(opt, ret.w, v)
            IN  /\ NerLoss(opt, ret.w, v) = NerLoss(opt, ret.w, lastBatch)
                /\ r.err = lastErr
                /\ lastErr = "none" => r.loss = ret.loss

\* A finite loss was returned for a batch with a masked position whose cross
\* entropy depends on the tag.
C10_Witness ==
    /\ lastOp = "train_on_batch"
    /\ lastErr = "none"
    /\ IsFinite(ret.loss)
    /\ \E p \in MaskedPositions(lastBatch) :
          LET row == lastBatch.examples[p[1]].ner_xent[p[2]]
          IN  IsFinite(row[1]) /\ row[1] # row[2]

\* The knowledge-base table of the instance has no entry: its rows have no
\* width, as those of the default table.
NoKnowledgeBase == ctorArgs.knowledge_base_entry_embeddings.width = 0

\* C11: without a knowledge base the output layer is the dense projection
\* over the target vocabulary, and every token id that inference predicts
\* and returns is below target_vocab_size.
C11_NoKbPredictsVocabulary ==
    (alive /\ NoKnowledgeBase) =>
        /\ ProjectionWidth(opt) = opt.target_vocab_size
        /\ pc = "decoding" => call.max_id < opt.target_vocab_size
        /\ (lastOp = "__call__" /\ ret.kind = "preds")
              => ret.max_id < opt.target_vocab_size

\* An instance built on the default table returned predictions of several
\* steps that hold the largest id of the target vocabulary.
C11_Witness ==
    /\ alive
    /\ ctorArgs.knowledge_base_entry_embeddings = EmptyKb
    /\ lastOp = "__call__"
    /\ ret.kind = "preds"
    /\ ret.steps > 1
    /\ ret.max_id = opt.target_vocab_size - 1

ConfiguredNerHead ==
    [i \in 1..Len(ctorArgs.ner_hidden_size.items) |->
        [units |-> PyInt(ctorArgs.ner_hidden_size.items[i]), activation |-> "relu"]]
      \o <<[units |-> PyInt(ctorArgs.ner_n_tags), activation |-> "none"]>>

\* C13: the NER head of a built graph has one dense layer with ReLU for each
\* entry of the configured ner_hidden_size, in order and of that entry's
\* width, followed by one linear layer of ner_n_tags units.
C13_NerHeadFollowsSizes ==
    (lastOp = "__init__" /\ "_build_graph" \in StagesRun)
        => NerHeadLayers(opt) = ConfiguredNerHead

\* C14: a load whose parameter comparison fails with ConfigError restores
\* nothing: the weights are those from before the load call, which for the
\* load inside __init__ are the freshly initialized ones.
C14_FailedCheckRestoresNothing ==
    [][(LoadRan' /\ lastErr' = "ConfigError")
          => weights' = IF lastOp' = "__init__" THEN InitialWeights ELSE weights]_vars

\* A load failed with ConfigError against a checkpoint of trained weights,
\* and the weights are not those of the checkpoint.
C14_Witness ==
    /\ LoadRan
    /\ lastErr = "ConfigError"
    /\ disk.weights # InitialWeights
    /\ weights # disk.weights

\* The fields of the configuration that are no graph parameters.
NonGraphParams ==
    {"ner_beta", "target_start_of_sequence_index", "target_end_of_sequence_index",
     "beam_width", "l2_regs", "dropout_rate", "state_dropout_rate", "optimizer"}

\* Some field that is no graph parameter differs between the current and
\* the persisted configuration.
DiffersOutsideGraphParams ==
    \/ \E p \in NonGraphParams \ {"l2_regs"} : opt[p] # Persisted[p]
    \/ opt.l2_regs.items # Persisted.l2_regs.items

\* C15: a load against a persisted configuration that differs from the
\* current one in fields outside the graph parameters only passes the
\* comparison and restores the weights.
C15_OnlyGraphParamsChecked ==
    (/\ LoadRan
     /\ \A p \in NonKbGraphParams \cup {"kb_embedding_control_sum"} :
            opt[p] = Persisted[p]
     /\ DiffersOutsideGraphParams)
        => (lastErr = "none" /\ alive /\ weights = disk.weights)

\* An instance with another optimizer and one with another beam width than
\* the persisted configuration names loaded trained weights.
C15_Witness ==
    /\ LoadRan
    /\ lastErr = "none"
    /\ \/ opt.optimizer # Persisted.optimizer
       \/ opt.beam_width # Persisted.beam_width
    /\ disk.weights # InitialWeights
    /\ weights = disk.weights

====
